---- MODULE Spec2Model ----
(***************************************************************************)
(* Exchange-rate acquisition and Pago Movil verification of the payments   *)
(* app: ExchangeRateLog / ExchangeRateAlert rows, the rate cache, the      *)
(* ExchangeRateService operations, and the verification-request workflow.  *)
(*                                                                         *)
(* Units.  Decimal columns are scaled integers: a rate (decimal_places=4)  *)
(* is counted in 1/10000 VES, an amount and a percentage (decimal_places=2)*)
(* in 1/100.  Time is counted in half hours.  A row's id is its position   *)
(* in the table; auto_now_add timestamps grow with the insertion order, so *)
(* "ordered by timestamp" is the order of the ids and the ts field keeps   *)
(* the (coarse) time of the insert for age computations.                   *)
(* A nullable column holds {} for NULL and {v} for the value v.            *)
(* Free-text columns (error_message, message) decide nothing and are left  *)
(* out of the rows.                                                        *)
(***************************************************************************)
EXTENDS Integers, Sequences, FiniteSets, TLC

VARIABLES
    log,        \* ExchangeRateLog table, in insertion order
    alerts,     \* ExchangeRateAlert table
    cache,      \* the two cache keys, each {} or {[data, expires]}
    now,        \* timezone.now()
    requests,   \* PagoMovilVerificationRequest table, in insertion order
    orders,     \* Order rows the verification workflow touches
    snapshots,  \* ExchangeRateSnapshot table, in insertion order
    pc,         \* position of each concurrent request worker
    loc,        \* local variables of each concurrent request worker
    resp        \* what the last completed operation returned to its caller

vars == <<log, alerts, cache, now, requests, orders, snapshots, pc, loc, resp>>

----------------------------------------------------------------------------
(* Bounds *)
MaxLog  == 3      \* rows in the ExchangeRateLog table
MaxAcq  == 2      \* the same, where more inputs are tried per operation
MaxTime == 3      \* half hours the clock may advance
MaxReq  == 4      \* rows in the PagoMovilVerificationRequest table
MaxVer  == 2      \* the same, where staff actions and rate commits join in
MaxOps  == 1      \* operations each concurrent worker performs

(* Program constants *)
CACHE_TIMEOUT   == 2         \* 3600 s, in half hours
FRESH_AGE       == 2         \* timedelta(hours=1), in half hours
ALERT_THRESHOLD == 500       \* Decimal('5.0') percent
FALLBACK_RATE   == 380000    \* Decimal('38.0')

NULL == {}
Some(v) == {v}
Val(o) == CHOOSE v \in o : TRUE

(* The fetchers in the order of self.sources. *)
sources == <<"exchangerate_host", "google_finance", "open_exchange_rates">>

(* Rates the providers may answer with, and what one call of a fetcher can *)
(* end in: it raises, it yields no valid result, or it yields a rate.      *)
SourceRates == {400000, 420000}
Outcomes == {[kind |-> "raise", rate |-> 0], [kind |-> "invalid", rate |-> 0]}
            \cup {[kind |-> "ok", rate |-> r] : r \in SourceRates}

----------------------------------------------------------------------------
(* Decimal arithmetic *)

(* n / d rounded to an integer, ties to even (decimal.ROUND_HALF_EVEN). *)
RoundHalfEven(n, d) ==
    LET q == n \div d
        r == n % d
    IN  IF 2 * r < d THEN q
        ELSE IF 2 * r > d THEN q + 1
        ELSE IF q % 2 = 0 THEN q ELSE q + 1

Abs(x) == IF x < 0 THEN -x ELSE x

----------------------------------------------------------------------------
(* ExchangeRateLog *)

Ids(l) == DOMAIN l

(* cls.objects.filter(is_active=True, fetch_success=True).latest('timestamp') *)
LogCurrentRate(l) ==
    LET c == {i \in Ids(l) : l[i].is_active /\ l[i].fetch_success}
    IN  IF c = {} THEN NULL ELSE Some(CHOOSE i \in c : \A j \in c : j <= i)

(* As PreviousRate, but without the fetch_success=True filter. *)
PreviousRateAnyRow(l, id) ==
    IF id > 1 /\ id - 1 \in Ids(l) THEN Some(id - 1) ELSE NULL

(* The row save() compares with: the latest successful row before row id. *)
PreviousRate(l, id) ==
    LET c == {i \in Ids(l) : l[i].fetch_success /\ i < id}
    IN  IF c = {} THEN NULL ELSE Some(CHOOSE i \in c : \A j \in c : j <= i)

(* round(((self - previous) / previous) * 100, 2), in hundredths of a      *)
(* percent.  So that no intermediate product leaves 32 bits, a factor     *)
(* common to both rates is removed first (the quotient is the same) and    *)
(* the quotient is developed one decimal digit at a time.                  *)
ChangePct(new, prev) ==
    LET k  == IF new % 10000 = 0 /\ prev % 10000 = 0 THEN 10000 ELSE 1
        p  == prev \div k
        d  == (new - prev) \div k
        q0 == d \div p
        r0 == d % p
        q1 == (r0 * 10) \div p
        r1 == (r0 * 10) % p
        q2 == (r1 * 10) \div p
        r2 == (r1 * 10) % p
        q3 == (r2 * 10) \div p
        r3 == (r2 * 10) % p
    IN  q0 * 10000 + q1 * 1000 + q2 * 100 + q3 * 10 + RoundHalfEven(r3 * 10, p)

(* super().save(): the INSERT of a new row. *)
SaveInsert(l, rate, source, success, t) ==
    Append(l, [rate |-> rate, source |-> source, ts |-> t, is_active |-> TRUE,
               fetch_success |-> success, change_percentage |-> NULL])

(* save(), second step: change_percentage against the previous success. *)
SaveChange(l, id) ==
    LET p == PreviousRate(l, id)
    IN  IF l[id].fetch_success /\ p # NULL
        THEN [l EXCEPT ![id].change_percentage =
                          Some(ChangePct(l[id].rate, l[Val(p)].rate))]
        ELSE l

(* save(), third step: filter(is_active=True).exclude(id).update(False). *)
SaveDeactivate(l, id) ==
    IF l[id].fetch_success /\ l[id].is_active
    THEN [i \in Ids(l) |-> IF i # id THEN [l[i] EXCEPT !.is_active = FALSE] ELSE l[i]]
    ELSE l

(* change_percentage is DecimalField(max_digits=5, decimal_places=2): a    *)
(* change of 1000.00 % or more cannot be stored, and the second            *)
(* super().save() raises.                                                  *)
ChangeOverflows(l, id) ==
    LET p == PreviousRate(l, id)
    IN  /\ l[id].fetch_success
        /\ p # NULL
        /\ Abs(ChangePct(l[id].rate, l[Val(p)].rate)) >= 100000

(* ExchangeRateLog.save() of an existing row, run in one piece: when the   *)
(* change cannot be stored the exception leaves save() after the first     *)
(* write, before the other rows are deactivated.                           *)
SaveRow(l, id) ==
    IF ChangeOverflows(l, id) THEN l ELSE SaveDeactivate(SaveChange(l, id), id)

(* ExchangeRateLog.objects.create(...), run in one piece. *)
CreateRow(l, rate, source, success, t) ==
    SaveRow(SaveInsert(l, rate, source, success, t), Len(l) + 1)

----------------------------------------------------------------------------
(* ExchangeRateAlert *)

Alert(type, id, threshold) ==
    [alert_type |-> type, exchange_rate |-> id, threshold_value |-> threshold]

(* As DueAlerts, but without the test for the fallback source. *)
DueAlertsNoFallback(l, id) ==
    LET cp == l[id].change_percentage
    IN  (IF cp # NULL /\ Val(cp) # 0 /\ Abs(Val(cp)) >= ALERT_THRESHOLD
         THEN <<Alert("high_change", id, cp)>> ELSE << >>)
        \o (IF ~l[id].fetch_success
            THEN <<Alert("fetch_error", id, NULL)>> ELSE << >>)

(* The alerts _check_rate_alerts creates for row id, in the order of its   *)
(* three tests.                                                            *)
DueAlerts(l, id) ==
    LET cp == l[id].change_percentage
    IN  (IF cp # NULL /\ Val(cp) # 0 /\ Abs(Val(cp)) >= ALERT_THRESHOLD
         THEN <<Alert("high_change", id, cp)>> ELSE << >>)
        \o (IF ~l[id].fetch_success
            THEN <<Alert("fetch_error", id, NULL)>> ELSE << >>)
        \o (IF l[id].source = "fallback"
            THEN <<Alert("source_fallback", id, NULL)>> ELSE << >>)

(* _check_rate_alerts: failAt = 0 when every ExchangeRateAlert.objects     *)
(* .create succeeds, k when the k-th one raises; the except clause logs    *)
(* the error, the rows created before it stay.                             *)
check_rate_alerts(al, l, id, failAt) ==
    LET due == DueAlerts(l, id)
    IN  IF failAt = 0 \/ failAt > Len(due) THEN al \o due
        ELSE al \o SubSeq(due, 1, failAt - 1)

----------------------------------------------------------------------------
(* The cache *)

EmptyCache == [current |-> NULL, last_fetch |-> NULL]

(* cache.get(key): the entry's data until its timeout has passed. *)
CacheGet(c, key, t) ==
    IF c[key] # NULL /\ t < Val(c[key]).expires THEN Some(Val(c[key]).data) ELSE NULL

(* As CacheSet, but with twice the timeout. *)
CacheSetTwoHours(c, key, data, t) ==
    [c EXCEPT ![key] = Some([data |-> data, expires |-> t + 2 * CACHE_TIMEOUT])]

(* cache.set(key, data, timeout) *)
CacheSet(c, key, data, t) ==
    [c EXCEPT ![key] = Some([data |-> data, expires |-> t + CACHE_TIMEOUT])]

(* cache.delete(key) *)
CacheDelete(c, key) == [c EXCEPT ![key] = NULL]

(* rate_data: float() of a Decimal of at most 10 digits is read back       *)
(* unchanged by Decimal(str(...)), so the scaled integer stands for both;  *)
(* a change_percentage that is NULL or zero is falsy and shows as None.    *)
RateData(rate, ts, source, cp) ==
    [usd_to_ves |-> rate, last_updated |-> ts, source |-> source,
     change_percentage |-> IF cp # NULL /\ Val(cp) # 0 THEN cp ELSE NULL]

----------------------------------------------------------------------------
(* ExchangeRateService *)

(* As TrySources, but without the break: every source is asked and the     *)
(* last success wins.                                                      *)
RECURSIVE TrySourcesNoBreak(_, _, _)
TrySourcesNoBreak(outs, i, calls) ==
    IF i > Len(sources) THEN [rate |-> NULL, source |-> NULL, calls |-> calls]
    ELSE LET rest == TrySourcesNoBreak(outs, i + 1, Append(calls, sources[i]))
         IN  IF outs[i].kind = "ok" /\ outs[i].rate # 0 /\ rest.rate = NULL
             THEN [rate |-> Some(outs[i].rate), source |-> Some(sources[i]),
                   calls |-> rest.calls]
             ELSE rest

(* The loop over self.sources from position i on: calls is the sequence of *)
(* fetchers invoked so far, outs[i] what fetcher i ends in when called.    *)
RECURSIVE TrySources(_, _, _)
TrySources(outs, i, calls) ==
    IF i > Len(sources) THEN [rate |-> NULL, source |-> NULL, calls |-> calls]
    ELSE IF outs[i].kind = "ok" /\ outs[i].rate # 0
         THEN [rate |-> Some(outs[i].rate), source |-> Some(sources[i]),
               calls |-> Append(calls, sources[i])]
         ELSE TrySources(outs, i + 1, Append(calls, sources[i]))

(* As AcquireRate, but without the fallback: no rate when all sources fail. *)
AcquireRateNoFallback(outs) ==
    LET r == TrySources(outs, 1, << >>)
    IN  IF r.rate = NULL
        THEN [rate |-> 0, source |-> "fallback", calls |-> r.calls]
        ELSE [rate |-> Val(r.rate), source |-> Val(r.source), calls |-> r.calls]

(* Lines 83-110 of fetch_and_store_rate: the loop, then the fallback. *)
AcquireRate(outs) ==
    LET r == TrySources(outs, 1, << >>)
    IN  IF r.rate = NULL
        THEN [rate |-> FALLBACK_RATE, source |-> "fallback", calls |-> r.calls]
        ELSE [rate |-> Val(r.rate), source |-> Val(r.source), calls |-> r.calls]

(* As FetchAndStoreResult, but a fallback result is not put in the cache. *)
FetchAndStoreResultNoFallbackCache(l, al, c, t, outs, failAt) ==
    LET a    == AcquireRate(outs)
        id   == Len(l) + 1
        l1   == CreateRow(l, a.rate, a.source, a.source # "fallback", t)
        data == RateData(a.rate, l1[id].ts, a.source, l1[id].change_percentage)
    IN  [log    |-> l1,
         alerts |-> check_rate_alerts(al, l1, id, failAt),
         cache  |-> IF a.source = "fallback" THEN c
                    ELSE CacheSet(CacheSet(c, "current", data, t), "last_fetch", t, t),
         data   |-> data,
         calls  |-> a.calls,
         stored |-> TRUE]

(* As FetchAndStoreResult, but a failing alert insert is not caught in      *)
(* _check_rate_alerts: it ends the try block before the cache is written.  *)
FetchAndStoreResultAlertRaises(l, al, c, t, outs, failAt) ==
    LET a    == AcquireRate(outs)
        id   == Len(l) + 1
        l1   == CreateRow(l, a.rate, a.source, a.source # "fallback", t)
        data == RateData(a.rate, l1[id].ts, a.source, l1[id].change_percentage)
    IN  [log    |-> l1,
         alerts |-> check_rate_alerts(al, l1, id, failAt),
         cache  |-> IF failAt \in 1..Len(DueAlerts(l1, id)) THEN c
                    ELSE CacheSet(CacheSet(c, "current", data, t), "last_fetch", t, t),
         data   |-> data,
         calls  |-> a.calls,
         stored |-> TRUE]

(* What fetch_and_store_rate leaves behind and returns, run in one piece.  *)
(* When create() raises (the change cannot be stored) the inserted row     *)
(* stays, nothing else is written and None is returned: stored is FALSE.   *)
FetchAndStoreResult(l, al, c, t, outs, failAt) ==
    LET a    == AcquireRate(outs)
        id   == Len(l) + 1
        l0   == SaveInsert(l, a.rate, a.source, a.source # "fallback", t)
        l1   == CreateRow(l, a.rate, a.source, a.source # "fallback", t)
        data == RateData(a.rate, l1[id].ts, a.source, l1[id].change_percentage)
    IN  IF ChangeOverflows(l0, id)
        THEN [log |-> l1, alerts |-> al, cache |-> c, data |-> data,
              calls |-> a.calls, stored |-> FALSE]
        ELSE [log    |-> l1,
              alerts |-> check_rate_alerts(al, l1, id, failAt),
              cache  |-> CacheSet(CacheSet(c, "current", data, t), "last_fetch", t, t),
              data   |-> data,
              calls  |-> a.calls,
              stored |-> TRUE]

(* As GetCurrentRateResult, but an active row exactly one hour old still    *)
(* counts as fresh.                                                        *)
GetCurrentRateResultStale(l, al, c, t, force, outs, failAt) ==
    LET cached == CacheGet(c, "current", t)
        cur    == LogCurrentRate(l)
        f      == FetchAndStoreResult(l, al, c, t, outs, failAt)
    IN  IF ~force /\ cached # NULL
        THEN [log |-> l, alerts |-> al, cache |-> c, data |-> Val(cached),
              calls |-> << >>, path |-> "cache", stored |-> TRUE]
        ELSE IF cur # NULL /\ ~force /\ t - l[Val(cur)].ts <= FRESH_AGE
        THEN LET row  == l[Val(cur)]
                 data == RateData(row.rate, row.ts, row.source, row.change_percentage)
             IN  [log |-> l, alerts |-> al, cache |-> CacheSet(c, "current", data, t),
                  data |-> data, calls |-> << >>, path |-> "store", stored |-> TRUE]
        ELSE [path |-> "fetch"] @@ f

(* What get_current_rate(force_fetch) leaves behind and returns. *)
GetCurrentRateResult(l, al, c, t, force, outs, failAt) ==
    LET cached == CacheGet(c, "current", t)
        cur    == LogCurrentRate(l)
        f      == FetchAndStoreResult(l, al, c, t, outs, failAt)
    IN  IF ~force /\ cached # NULL
        THEN [log |-> l, alerts |-> al, cache |-> c, data |-> Val(cached),
              calls |-> << >>, path |-> "cache", stored |-> TRUE]
        ELSE IF cur # NULL /\ ~force /\ t - l[Val(cur)].ts < FRESH_AGE
        THEN LET row  == l[Val(cur)]
                 data == RateData(row.rate, row.ts, row.source, row.change_percentage)
             IN  [log |-> l, alerts |-> al, cache |-> CacheSet(c, "current", data, t),
                  data |-> data, calls |-> << >>, path |-> "store", stored |-> TRUE]
        ELSE [path |-> "fetch"] @@ f

(* ManualRateSetSerializer: min_value=1 and max_value=100000, then         *)
(* validate_rate (not positive, below 10); a rate above 100 is only        *)
(* logged.                                                                 *)
ManualRates == {50000, 360000}

(* As ManualRateValid, but without max_value. *)
ManualRateValidNoMax(rate) == rate >= 10000 /\ ~(rate <= 0) /\ ~(rate < 100000)

ManualRateValid(rate) == rate >= 10000 /\ rate <= 1000000000 /\ ~(rate <= 0) /\ ~(rate < 100000)

(* validate_rate: logger.warning for a rate above 100. *)
ManualRateWarned(rate) == rate > 1000000

----------------------------------------------------------------------------
(* State *)

Procs  == {1, 2}
Users  == {1, 2}
Orders == {1}

IdleLoc == [op |-> "none", n |-> 0, path |-> "none", calls |-> << >>,
            rate |-> 0, source |-> "none", id |-> 0]

Init ==
    /\ log = << >>
    /\ alerts = << >>
    /\ cache = EmptyCache
    /\ now = 0
    /\ requests = << >>
    /\ orders = [o \in Orders |-> [payment_status |-> "pending", status |-> "pending"]]
    /\ snapshots = << >>
    /\ pc = [p \in Procs |-> "idle"]
    /\ loc = [p \in Procs |-> IdleLoc]
    /\ resp = [op |-> "none"]

(* Time passes between requests. *)
Tick ==
    /\ now < MaxTime
    /\ now' = now + 1
    /\ UNCHANGED <<log, alerts, cache, requests, orders, snapshots, pc, loc, resp>>

----------------------------------------------------------------------------
(* Rate operations, each request served from start to end *)

(* The outcomes of the three fetchers during one acquisition.  Sources     *)
(* after the first success are never asked, and a fetcher that raises and  *)
(* one that yields nothing leave the same rows, so one representative per  *)
(* distinct course of the loop is Representative (the second rate is kept  *)
(* for the first source only); AllOutcomes is every combination.           *)
AllOutcomes == [1..3 -> Outcomes]
Representative ==
    {outs \in AllOutcomes :
        \A i \in 1..3 :
            /\ outs[i].kind # "invalid"
            /\ (i > 1 /\ outs[i].kind = "ok") => outs[i].rate = 400000
            /\ \A j \in 1..3 : (j < i /\ outs[j].kind = "ok") => outs[i].kind = "raise"}

(* fetch_and_store_rate(), reached from ExchangeRateRefreshView.post and   *)
(* the admin's refresh_current_rate: outs are the fetchers' outcomes,      *)
(* failAt says which alert creation fails (0: none), cap bounds the table. *)
FetchAndStore(outs, failAt, cap) ==
    LET f == FetchAndStoreResult(log, alerts, cache, now, outs, failAt)
    IN  /\ Len(log) < cap
        /\ log' = f.log
        /\ alerts' = f.alerts
        /\ cache' = f.cache
        /\ resp' = [op |-> "fetch_and_store_rate",
                    status |-> IF f.stored THEN "ok" ELSE "error",
                    data |-> IF f.stored THEN Some(f.data) ELSE NULL,
                    calls |-> f.calls,
                    ok |-> {i \in 1..3 : outs[i].kind = "ok"}]
        /\ UNCHANGED <<now, snapshots, requests, orders, pc, loc>>

fetch_and_store_rate == \E outs \in Representative : FetchAndStore(outs, 0, MaxLog)

(* get_current_rate(force_fetch), reached from ExchangeRateCurrentView.get *)
GetCurrentRate(force, outs, failAt, cap) ==
    LET g == GetCurrentRateResult(log, alerts, cache, now, force, outs, failAt)
    IN  /\ g.path = "fetch" => Len(log) < cap
        /\ log' = g.log
        /\ alerts' = g.alerts
        /\ cache' = g.cache
        /\ resp' = [op |-> "get_current_rate",
                    status |-> IF g.stored THEN "ok" ELSE "error", force |-> force,
                    data |-> IF g.stored THEN Some(g.data) ELSE NULL,
                    calls |-> g.calls, path |-> g.path,
                    ok |-> IF g.path = "fetch"
                           THEN {i \in 1..3 : outs[i].kind = "ok"} ELSE {}]
        /\ UNCHANGED <<now, snapshots, requests, orders, pc, loc>>

get_current_rate ==
    \E force \in BOOLEAN, outs \in Representative : GetCurrentRate(force, outs, 0, MaxLog)

(* As SetManualRate, but the cache is left as it was. *)
SetManualRateStaleCache(rate, alertOk, cap) ==
    IF ~ManualRateValid(rate)
    THEN /\ resp' = [op |-> "set_manual_rate", status |-> "invalid", rate |-> rate,
                      warned |-> FALSE]
         /\ UNCHANGED <<log, alerts, cache, now, snapshots, requests, orders, pc, loc>>
    ELSE LET id   == Len(log) + 1
             l1   == CreateRow(log, rate, "manual", TRUE, now)
             data == RateData(rate, l1[id].ts, "manual", l1[id].change_percentage)
         IN  /\ Len(log) < cap
             /\ log' = l1
             /\ IF alertOk /\ ~ChangeOverflows(SaveInsert(log, rate, "manual", TRUE, now), id)
                THEN /\ alerts' = Append(alerts, Alert("manual_override", id, NULL))
                     /\ UNCHANGED cache
                     /\ resp' = [op |-> "set_manual_rate", status |-> "ok",
                                 rate |-> rate, data |-> Some(data),
                                 warned |-> ManualRateWarned(rate)]
                ELSE /\ UNCHANGED <<alerts, cache>>
                     /\ resp' = [op |-> "set_manual_rate", status |-> "error",
                                 rate |-> rate, warned |-> ManualRateWarned(rate)]
             /\ UNCHANGED <<now, snapshots, requests, orders, pc, loc>>

(* ManualRateSetView.post -> set_manual_rate: alertOk is whether the       *)
(* manual_override alert can be created; if not, or if create() raises     *)
(* because the change cannot be stored, the exception leaves               *)
(* set_manual_rate before the cache is touched and the view answers 500.   *)
SetManualRate(rate, alertOk, cap) ==
    IF ~ManualRateValid(rate)
    THEN /\ resp' = [op |-> "set_manual_rate", status |-> "invalid", rate |-> rate,
                      warned |-> FALSE]
         /\ UNCHANGED <<log, alerts, cache, now, snapshots, requests, orders, pc, loc>>
    ELSE LET id   == Len(log) + 1
             l1   == CreateRow(log, rate, "manual", TRUE, now)
             data == RateData(rate, l1[id].ts, "manual", l1[id].change_percentage)
         IN  /\ Len(log) < cap
             /\ log' = l1
             /\ IF alertOk /\ ~ChangeOverflows(SaveInsert(log, rate, "manual", TRUE, now), id)
                THEN /\ alerts' = Append(alerts, Alert("manual_override", id, NULL))
                     /\ cache' = CacheSet(CacheDelete(cache, "current"), "current", data, now)
                     /\ resp' = [op |-> "set_manual_rate", status |-> "ok",
                                 rate |-> rate, data |-> Some(data),
                                 warned |-> ManualRateWarned(rate)]
                ELSE /\ UNCHANGED <<alerts, cache>>
                     /\ resp' = [op |-> "set_manual_rate", status |-> "error",
                                 rate |-> rate, warned |-> ManualRateWarned(rate)]
             /\ UNCHANGED <<now, snapshots, requests, orders, pc, loc>>

set_manual_rate == \E rate \in ManualRates : SetManualRate(rate, TRUE, MaxLog)

(* ExchangeRateLogAdmin.activate_rate on the selected rows. *)
activate_rate ==
    \E sel \in SUBSET Ids(log) :
        /\ sel # {}
        /\ IF Cardinality(sel) > 1
           THEN UNCHANGED <<log, cache>>
           ELSE LET id == CHOOSE i \in sel : TRUE
                    l1 == [i \in Ids(log) |->
                             [log[i] EXCEPT !.is_active = (i = id)]]
                IN  /\ log' = SaveRow(l1, id)
                    /\ cache' = IF ChangeOverflows(l1, id) THEN cache
                                ELSE CacheDelete(cache, "current")
        /\ resp' = [op |-> "activate_rate",
                    status |-> IF \/ Cardinality(sel) > 1
                                  \/ \E i \in sel :
                                        ChangeOverflows([j \in Ids(log) |->
                                            [log[j] EXCEPT !.is_active = (j = i)]], i)
                               THEN "error" ELSE "ok"]
        /\ UNCHANGED <<alerts, now, snapshots, requests, orders, pc, loc>>

(* ExchangeRateLogAdmin.deactivate_rate on the selected rows. *)
deactivate_rate ==
    \E sel \in SUBSET Ids(log) :
        /\ sel # {}
        /\ log' = [i \in Ids(log) |->
                     IF i \in sel THEN [log[i] EXCEPT !.is_active = FALSE] ELSE log[i]]
        /\ resp' = [op |-> "deactivate_rate", status |-> "ok"]
        /\ UNCHANGED <<alerts, cache, now, snapshots, requests, orders, pc, loc>>

Next ==
    \/ fetch_and_store_rate
    \/ get_current_rate
    \/ set_manual_rate
    \/ activate_rate
    \/ deactivate_rate

Spec == Init /\ [][Next]_vars

----------------------------------------------------------------------------
(* Acquisitions under every combination of source outcomes, with alert     *)
(* creation failing or not                                                 *)

refresh_rate ==
    \E outs \in AllOutcomes, failAt \in 0..2 : FetchAndStore(outs, failAt, MaxAcq)

current_rate ==
    \E force \in BOOLEAN, outs \in AllOutcomes, failAt \in 0..2 :
        GetCurrentRate(force, outs, failAt, MaxAcq)

NextAcq == refresh_rate \/ current_rate

SpecAcq == Init /\ [][NextAcq]_vars

----------------------------------------------------------------------------
(* Rate operations of concurrent request workers, one statement at a time. *)
(* Nothing in the service or the views opens a transaction or takes a lock,*)
(* so every ORM call and every cache call is a step of its own and other   *)
(* workers' steps may fall between two of them.                            *)

Returned(p) == pc[p] = "idle" /\ loc[p].n > 0

(* get_current_rate(), lines 48-52: the cache read. *)
ConcCacheRead(p) ==
    /\ pc[p] = "idle" /\ loc[p].n < MaxOps
    /\ LET cached == CacheGet(cache, "current", now)
           l == [IdleLoc EXCEPT !.op = "get_current_rate", !.n = loc[p].n + 1]
       IN  IF cached # NULL
           THEN /\ loc' = [loc EXCEPT ![p] = [l EXCEPT !.path = "cache"]]
                /\ resp' = [op |-> "get_current_rate", status |-> "ok", force |-> FALSE,
                            data |-> cached, calls |-> << >>, path |-> "cache", ok |-> {}]
                /\ UNCHANGED pc
           ELSE /\ loc' = [loc EXCEPT ![p] = l]
                /\ pc' = [pc EXCEPT ![p] = "g_store"]
                /\ UNCHANGED resp
    /\ UNCHANGED <<log, alerts, cache, now, snapshots, requests, orders>>

(* get_current_rate(), lines 54-69: the active row, served if fresh. *)
ConcStoreRead(p) ==
    /\ pc[p] = "g_store"
    /\ LET cur == LogCurrentRate(log)
       IN  IF cur # NULL /\ now - log[Val(cur)].ts < FRESH_AGE
           THEN LET row  == log[Val(cur)]
                    data == RateData(row.rate, row.ts, row.source, row.change_percentage)
                IN  /\ cache' = CacheSet(cache, "current", data, now)
                    /\ loc' = [loc EXCEPT ![p].path = "store"]
                    /\ pc' = [pc EXCEPT ![p] = "idle"]
                    /\ resp' = [op |-> "get_current_rate", status |-> "ok",
                                force |-> FALSE, data |-> Some(data), calls |-> << >>,
                                path |-> "store", ok |-> {}]
           ELSE /\ loc' = [loc EXCEPT ![p].path = "fetch"]
                /\ pc' = [pc EXCEPT ![p] = "f_sources"]
                /\ UNCHANGED <<cache, resp>>
    /\ UNCHANGED <<log, alerts, now, snapshots, requests, orders>>

(* fetch_and_store_rate(), lines 83-110, entered from get_current_rate. *)
ConcSources(p) ==
    /\ pc[p] = "f_sources"
    /\ \E outs \in Representative :
          LET a == AcquireRate(outs)
          IN  loc' = [loc EXCEPT ![p].calls = a.calls, ![p].rate = a.rate,
                                 ![p].source = a.source]
    /\ pc' = [pc EXCEPT ![p] = "insert"]
    /\ UNCHANGED <<log, alerts, cache, now, snapshots, requests, orders, resp>>

(* fetch_and_store_rate(), lines 83-110, called by the refresh view. *)
ConcRefresh(p) ==
    /\ pc[p] = "idle" /\ loc[p].n < MaxOps
    /\ \E outs \in Representative :
          LET a == AcquireRate(outs)
          IN  loc' = [loc EXCEPT ![p] =
                        [IdleLoc EXCEPT !.op = "fetch_and_store_rate",
                                        !.n = loc[p].n + 1, !.path = "fetch",
                                        !.calls = a.calls, !.rate = a.rate,
                                        !.source = a.source]]
    /\ pc' = [pc EXCEPT ![p] = "insert"]
    /\ UNCHANGED <<log, alerts, cache, now, snapshots, requests, orders, resp>>

(* set_manual_rate() called with a rate the serializer accepted. *)
ConcManual(p) ==
    /\ pc[p] = "idle" /\ loc[p].n < MaxOps
    /\ \E rate \in {r \in ManualRates : ManualRateValid(r)} :
          loc' = [loc EXCEPT ![p] =
                    [IdleLoc EXCEPT !.op = "set_manual_rate", !.n = loc[p].n + 1,
                                    !.rate = rate, !.source = "manual"]]
    /\ pc' = [pc EXCEPT ![p] = "insert"]
    /\ UNCHANGED <<log, alerts, cache, now, snapshots, requests, orders, resp>>

(* ExchangeRateLog.objects.create -> save(), line 316: the INSERT. *)
ConcInsert(p) ==
    /\ pc[p] = "insert"
    /\ Len(log) < MaxLog
    /\ log' = SaveInsert(log, loc[p].rate, loc[p].source, loc[p].source # "fallback", now)
    /\ loc' = [loc EXCEPT ![p].id = Len(log) + 1]
    /\ pc' = [pc EXCEPT ![p] = IF loc[p].source # "fallback" THEN "change" ELSE "alerts"]
    /\ UNCHANGED <<alerts, cache, now, snapshots, requests, orders, resp>>

(* save(), lines 320-329: the previous row is read, change_percentage written. *)
ConcChange(p) ==
    /\ pc[p] = "change"
    /\ IF ChangeOverflows(log, loc[p].id)
       THEN /\ pc' = [pc EXCEPT ![p] = "idle"]
            /\ resp' = [op |-> loc[p].op, status |-> "error", data |-> NULL,
                        calls |-> loc[p].calls, path |-> loc[p].path]
            /\ UNCHANGED log
       ELSE /\ log' = SaveChange(log, loc[p].id)
            /\ pc' = [pc EXCEPT ![p] = "deactivate"]
            /\ UNCHANGED resp
    /\ UNCHANGED <<alerts, cache, now, snapshots, requests, orders, loc>>

(* save(), lines 332-333: the UPDATE that deactivates the other rows.  The *)
(* test self.is_active reads the worker's own object, created with         *)
(* is_active=True, not the row another worker may have deactivated since.  *)
ConcDeactivate(p) ==
    /\ pc[p] = "deactivate"
    /\ log' = [i \in Ids(log) |->
                 IF i # loc[p].id THEN [log[i] EXCEPT !.is_active = FALSE] ELSE log[i]]
    /\ pc' = [pc EXCEPT ![p] = "alerts"]
    /\ UNCHANGED <<alerts, cache, now, snapshots, requests, orders, loc, resp>>

(* _check_rate_alerts (fetch) or the manual_override alert (manual). *)
ConcAlerts(p) ==
    /\ pc[p] = "alerts"
    /\ IF loc[p].op = "set_manual_rate"
       THEN /\ alerts' = Append(alerts, Alert("manual_override", loc[p].id, NULL))
            /\ pc' = [pc EXCEPT ![p] = "cache_delete"]
       ELSE /\ alerts' = check_rate_alerts(alerts, log, loc[p].id, 0)
            /\ pc' = [pc EXCEPT ![p] = "cache_set"]
    /\ UNCHANGED <<log, cache, now, snapshots, requests, orders, loc, resp>>

(* set_manual_rate(), line 417 *)
ConcCacheDelete(p) ==
    /\ pc[p] = "cache_delete"
    /\ cache' = CacheDelete(cache, "current")
    /\ pc' = [pc EXCEPT ![p] = "cache_set"]
    /\ UNCHANGED <<log, alerts, now, snapshots, requests, orders, loc, resp>>

(* Lines 126-138 (fetch) and 419-429 (manual): rate_data from the local    *)
(* rate and source and the saved object's timestamp and change_percentage  *)
(* (no other worker writes these two columns of the row), then cache.set.  *)
ConcCacheSet(p) ==
    /\ pc[p] = "cache_set"
    /\ LET row  == log[loc[p].id]
           data == RateData(loc[p].rate, row.ts, loc[p].source, row.change_percentage)
           c1   == CacheSet(cache, "current", data, now)
       IN  /\ cache' = IF loc[p].op = "set_manual_rate" THEN c1
                       ELSE CacheSet(c1, "last_fetch", now, now)
           /\ resp' = [op |-> loc[p].op, status |-> "ok", data |-> Some(data),
                       calls |-> loc[p].calls, path |-> loc[p].path]
    /\ pc' = [pc EXCEPT ![p] = "idle"]
    /\ UNCHANGED <<log, alerts, now, snapshots, requests, orders, loc>>

NextConc ==
    \E p \in Procs :
        \/ ConcCacheRead(p)
        \/ ConcStoreRead(p)
        \/ ConcSources(p)
        \/ ConcRefresh(p)
        \/ ConcManual(p)
        \/ ConcInsert(p)
        \/ ConcChange(p)
        \/ ConcDeactivate(p)
        \/ ConcAlerts(p)
        \/ ConcCacheDelete(p)
        \/ ConcCacheSet(p)

SpecConc == Init /\ [][NextConc]_vars

----------------------------------------------------------------------------
(* PagoMovilVerificationRequest *)

RATE_LIMIT  == 3      \* "if recent_requests >= 3"
RATE_WINDOW == 2      \* timedelta(hours=1), in half hours

Staff   == {"s1", "s2"}
Amounts == {0, 76000}            \* amount_ves, in 1/100 VES
NoteTexts == {"", "n"}

(* amount_ves / exchange_rate_used as the usd_equivalent column            *)
(* (decimal_places=2) keeps it.                                            *)
UsdEquivalent(amount, rate) == RoundHalfEven(amount * 10000, rate)

(* PagoMovilVerificationRequest.save(): usd_equivalent is derived when it  *)
(* is not set (None or zero) and amount and rate are non-zero.             *)
VerificationSave(row) ==
    IF (row.usd_equivalent = NULL \/ Val(row.usd_equivalent) = 0)
       /\ row.amount_ves # 0 /\ row.exchange_rate_used # 0
    THEN [row EXCEPT !.usd_equivalent =
                        Some(UsdEquivalent(row.amount_ves, row.exchange_rate_used))]
    ELSE row

(* As RecentRequests, but counting the requests of every user. *)
RecentRequestsAnyUser(reqs, user, t) ==
    Cardinality({i \in DOMAIN reqs : reqs[i].created_at >= t - RATE_WINDOW})

(* validate(): the user's requests with created_at >= now - 1 hour. *)
RecentRequests(reqs, user, t) ==
    Cardinality({i \in DOMAIN reqs :
                    reqs[i].user = user /\ reqs[i].created_at >= t - RATE_WINDOW})

(* As Approve, but the related order is left as it was. *)
ApproveRowOnly(reqs, ords, id, staff, t) ==
    LET row == VerificationSave([reqs[id] EXCEPT !.status = "approved",
                                                 !.approved_by = Some(staff),
                                                 !.approved_at = Some(t)])
    IN  [requests |-> [reqs EXCEPT ![id] = row], orders |-> ords]

(* approve(admin_user): the row, then the order if there is one. *)
Approve(reqs, ords, id, staff, t) ==
    LET row == VerificationSave([reqs[id] EXCEPT !.status = "approved",
                                                 !.approved_by = Some(staff),
                                                 !.approved_at = Some(t)])
    IN  [requests |-> [reqs EXCEPT ![id] = row],
         orders   |-> IF row.order # 0
                      THEN [ords EXCEPT ![row.order] =
                              [payment_status |-> "paid", status |-> "confirmed"]]
                      ELSE ords]

(* reject(admin_user, reason) *)
Reject(reqs, id, staff, reason, t) ==
    LET r1 == [reqs[id] EXCEPT !.status = "rejected", !.approved_by = Some(staff),
                               !.approved_at = Some(t)]
        r2 == IF reason # "" THEN [r1 EXCEPT !.notes = "Rejected: " \o reason] ELSE r1
    IN  [reqs EXCEPT ![id] = VerificationSave(r2)]

(* PagoMovilVerificationCreateView.post for a submission whose fields pass *)
(* the field validators: validate() applies the rate limit, the rate comes *)
(* from get_current_rate() (non-forced; the 38.0 of lines 907-910 is for a *)
(* missing rate_data, which get_current_rate never yields here), and the   *)
(* row is inserted.  A zero amount leaves usd_equivalent NULL and the      *)
(* INSERT fails on the NOT NULL column, which the view answers with 500.   *)
CreateVerification(user, order, amount, outs, capLog, capReq) ==
    IF RecentRequests(requests, user, now) >= RATE_LIMIT
    THEN /\ resp' = [op |-> "create_verification", status |-> "rate_limited",
                     user |-> user, at |-> now]
         /\ UNCHANGED <<log, alerts, cache, now, snapshots, requests, orders, pc, loc>>
    ELSE LET g   == GetCurrentRateResult(log, alerts, cache, now, FALSE, outs, 0)
             row == VerificationSave(
                      [user |-> user, order |-> order, amount_ves |-> amount,
                       exchange_rate_used |-> g.data.usd_to_ves,
                       usd_equivalent |-> NULL, status |-> "pending", notes |-> "",
                       approved_by |-> NULL, approved_at |-> NULL,
                       created_at |-> now])
         IN  /\ g.path = "fetch" => Len(log) < capLog
             /\ Len(requests) < capReq
             /\ log' = g.log
             /\ alerts' = g.alerts
             /\ cache' = g.cache
             /\ IF row.usd_equivalent = NULL
                THEN /\ UNCHANGED requests
                     /\ resp' = [op |-> "create_verification", status |-> "error",
                                 user |-> user, at |-> now]
                ELSE /\ requests' = Append(requests, row)
                     /\ resp' = [op |-> "create_verification", status |-> "created",
                                 user |-> user, at |-> now, rate_data |-> g.data]
             /\ UNCHANGED <<now, snapshots, orders, pc, loc>>

(* PagoMovilStatusUpdateView.patch *)
PatchStatus(id, new_status, notes, staff) ==
    /\ id \in DOMAIN requests
    /\ IF new_status = "approved"
       THEN LET a  == Approve(requests, orders, id, staff, now)
                r2 == IF notes # ""
                      THEN [a.requests EXCEPT ![id] =
                              VerificationSave([a.requests[id] EXCEPT !.notes = notes])]
                      ELSE a.requests
            IN  /\ requests' = r2
                /\ orders' = a.orders
       ELSE /\ requests' = Reject(requests, id, staff, notes, now)
            /\ UNCHANGED orders
    /\ resp' = [op |-> "patch_status", status |-> "ok", id |-> id,
                new_status |-> new_status]
    /\ UNCHANGED <<log, alerts, cache, now, snapshots, pc, loc>>

(* The change form of PagoMovilVerificationRequestAdmin: amount_ves is not *)
(* among readonly_fields, so staff can save a row with another amount;     *)
(* exchange_rate_used and usd_equivalent are read-only there.              *)
AdminChangeAmount(id, amount) ==
    /\ id \in DOMAIN requests
    /\ requests' = [requests EXCEPT ![id] =
                      VerificationSave([requests[id] EXCEPT !.amount_ves = amount])]
    /\ resp' = [op |-> "admin_change", status |-> "ok", id |-> id]
    /\ UNCHANGED <<log, alerts, cache, now, snapshots, orders, pc, loc>>

(* The pending rows of a selection, approved one after the other. *)
RECURSIVE ApproveAll(_, _, _, _, _)
ApproveAll(reqs, ords, ids, staff, t) ==
    IF ids = {} THEN [requests |-> reqs, orders |-> ords]
    ELSE LET id == CHOOSE i \in ids : \A j \in ids : i <= j
             a  == Approve(reqs, ords, id, staff, t)
         IN  ApproveAll(a.requests, a.orders, ids \ {id}, staff, t)

RECURSIVE RejectAll(_, _, _, _)
RejectAll(reqs, ids, staff, t) ==
    IF ids = {} THEN reqs
    ELSE LET id == CHOOSE i \in ids : \A j \in ids : i <= j
         IN  RejectAll(Reject(reqs, id, staff, "Bulk rejection", t), ids \ {id}, staff, t)

Pending(sel) == {i \in sel : requests[i].status = "pending"}

(* PagoMovilVerificationRequestAdmin.approve_selected *)
ApproveSelected(sel, staff) ==
    /\ sel # {}
    /\ sel \subseteq DOMAIN requests
    /\ LET a == ApproveAll(requests, orders, Pending(sel), staff, now)
       IN  /\ requests' = a.requests
           /\ orders' = a.orders
    /\ resp' = [op |-> "approve_selected", status |-> "ok",
                count |-> Cardinality(Pending(sel))]
    /\ UNCHANGED <<log, alerts, cache, now, snapshots, pc, loc>>

(* PagoMovilVerificationRequestAdmin.reject_selected *)
RejectSelected(sel, staff) ==
    /\ sel # {}
    /\ sel \subseteq DOMAIN requests
    /\ requests' = RejectAll(requests, Pending(sel), staff, now)
    /\ resp' = [op |-> "reject_selected", status |-> "ok",
                count |-> Cardinality(Pending(sel))]
    /\ UNCHANGED <<log, alerts, cache, now, snapshots, orders, pc, loc>>

----------------------------------------------------------------------------
(* Staff decisions on submitted requests (SpecStaff) *)

submit_request ==
    \E order \in {0} \cup Orders :
        CreateVerification(1, order, 76000,
                           [i \in 1..3 |-> [kind |-> "ok", rate |-> 400000]],
                           MaxLog, MaxVer)

patch_status ==
    \E id \in DOMAIN requests, new_status \in {"approved", "rejected"},
       notes \in NoteTexts, staff \in Staff :
        PatchStatus(id, new_status, notes, staff)

approve_selected ==
    \E sel \in SUBSET DOMAIN requests, staff \in Staff : ApproveSelected(sel, staff)

reject_selected ==
    \E sel \in SUBSET DOMAIN requests, staff \in Staff : RejectSelected(sel, staff)

NextStaff ==
    \/ submit_request
    \/ patch_status
    \/ approve_selected
    \/ reject_selected

SpecStaff == Init /\ [][NextStaff]_vars

----------------------------------------------------------------------------
(* The verification workflow next to rate commits (SpecVerif) *)

create_verification ==
    \E amount \in Amounts, outs \in Representative :
        CreateVerification(1, 0, amount, outs, MaxAcq, MaxVer)

decide ==
    \E id \in DOMAIN requests, new_status \in {"approved", "rejected"} :
        PatchStatus(id, new_status, "", "s1")

approve_pending == \E sel \in SUBSET DOMAIN requests : ApproveSelected(sel, "s1")

reject_pending == \E sel \in SUBSET DOMAIN requests : RejectSelected(sel, "s1")

override_rate == \E rate \in ManualRates : SetManualRate(rate, TRUE, MaxAcq)

admin_change == \E id \in DOMAIN requests : AdminChangeAmount(id, 80000)

NextVerif ==
    \/ create_verification
    \/ decide
    \/ approve_pending
    \/ reject_pending
    \/ override_rate
    \/ admin_change

SpecVerif == Init /\ [][NextVerif]_vars

----------------------------------------------------------------------------
(* Submissions over time (SpecLimit) *)

submit ==
    \E user \in Users, outs \in {o \in Representative : o[2].kind = "raise"} :
        CreateVerification(user, 0, 76000, outs, MaxLog, MaxReq)

NextLimit == Tick \/ submit

SpecLimit == Init /\ [][NextLimit]_vars

----------------------------------------------------------------------------
(* Claims about the rate store, operations served one at a time (Spec) *)

ActiveRows == {i \in Ids(log) : log[i].is_active}

(* C1: after any sequence of completed commits (fetch_and_store_rate with  *)
(* any source outcome, set_manual_rate, activate_rate) at most one         *)
(* ExchangeRateLog row has is_active = true.                               *)
C1_AtMostOneActive == Cardinality(ActiveRows) <= 1

(* The successful rows before row i, and the latest of them. *)
SuccessBefore(i) == {j \in Ids(log) : j < i /\ log[j].fetch_success}
LastSuccessBefore(i) == CHOOSE j \in SuccessBefore(i) : \A k \in SuccessBefore(i) : k <= j

(* c is (new - prev) / prev x 100 to two decimal places. *)
IsChangeOf(c, new, prev) == 2 * Abs(c * prev - (new - prev) * 10000) <= prev

----------------------------------------------------------------------------
(* Claims about one acquisition, every combination of outcomes (SpecAcq) *)

Acquired ==
    \/ resp.op = "fetch_and_store_rate"
    \/ resp.op = "get_current_rate" /\ resp.path = "fetch"

FirstOk == CHOOSE i \in resp.ok : \A j \in resp.ok : i <= j

(* C9: within one acquisition the sources are invoked in the order         *)
(* exchangerate_host, google_finance, open_exchange_rates, each at most    *)
(* once, none after an earlier one returned a valid rate, and the          *)
(* committed row's source is the first source that succeeded.              *)
C9_SourceOrder ==
    Acquired =>
        /\ Len(resp.calls) \in 1..3
        /\ \A k \in 1..Len(resp.calls) :
              resp.calls[k] = <<"exchangerate_host", "google_finance",
                                "open_exchange_rates">>[k]
        /\ \A k \in 1..(Len(resp.calls) - 1) : k \notin resp.ok
        /\ resp.ok # {} => /\ Len(resp.calls) = FirstOk
                           /\ log[Len(log)].source = resp.calls[FirstOk]

(* The first source failed, the second answered, and the third, which      *)
(* would have answered too, was not asked.                                 *)
C9_Witness ==
    /\ Acquired
    /\ resp.ok = {2, 3}
    /\ resp.calls = <<"exchangerate_host", "google_finance">>
    /\ log[Len(log)].source = "google_finance"

----------------------------------------------------------------------------
(* Claims about concurrent rate operations (SpecConc) *)

(* C2: when two commits run concurrently with their steps interleaved, no  *)
(* reachable state, the states between a commit's insert and its           *)
(* deactivate-others update included, has two records with is_active =     *)
(* true.  Stated for the rows of successful commits only, so that the      *)
(* fallback rows of C1 play no part in it.                                 *)
C2_NeverTwoActive ==
    \A i, j \in Ids(log) :
        (log[i].fetch_success /\ log[j].fetch_success
            /\ log[i].is_active /\ log[j].is_active) => i = j

(* C3: when all the callers of get_current_rate(force_fetch=False) miss    *)
(* the cache and find no fresh active row, the source chain has run once   *)
(* and one row has been committed for the burst.                           *)
C3_SingleFlight ==
    (\A p \in Procs : /\ Returned(p) /\ loc[p].n = 1
                      /\ loc[p].op = "get_current_rate" /\ loc[p].path = "fetch")
    => /\ Cardinality({p \in Procs : loc[p].calls # << >>}) = 1
       /\ Len(log) = 1

----------------------------------------------------------------------------
(* Claims about staff decisions (SpecStaff) *)

(* C4: the status of a verification request only goes from pending to      *)
(* approved or to rejected; no step changes the status of a request that   *)
(* is already approved or rejected.                                        *)
C4_TerminalIsFinal ==
    [][\A i \in DOMAIN requests :
          IF requests[i].status = "pending"
          THEN requests'[i].status \in {"pending", "approved", "rejected"}
          ELSE requests'[i].status = requests[i].status]_vars

(* C5: approve or reject, through the PATCH status endpoint, on a request  *)
(* that is not pending is answered with an invalid-transition error and    *)
(* leaves status, approving staff member and approval time as they were.   *)
C5_InvalidTransition ==
    [][(resp'.op = "patch_status" /\ requests[resp'.id].status # "pending")
         => /\ resp'.status = "invalid_transition"
            /\ requests'[resp'.id].status = requests[resp'.id].status
            /\ requests'[resp'.id].approved_by = requests[resp'.id].approved_by
            /\ requests'[resp'.id].approved_at = requests[resp'.id].approved_at]_vars

----------------------------------------------------------------------------
(* Claims about submissions over time (SpecLimit) *)

(* The requests that were in the table when the last submission came in. *)
Before == IF resp.status = "created" THEN 1..(Len(requests) - 1) ELSE DOMAIN requests

(* Those of them by the submitting user, at most 60 minutes old then. *)
InWindow == {i \in Before : /\ requests[i].user = resp.user
                            /\ resp.at - requests[i].created_at <= 2}

(* C6: a submission is answered with the rate-limit error exactly when the *)
(* user already has 3 or more requests created in the 60 minutes before    *)
(* it; older requests and other users' requests do not count.              *)
C6_RateLimit ==
    resp.op = "create_verification" =>
        (resp.status = "rate_limited" <=> Cardinality(InWindow) >= 3)

(* A submission is turned down while the user has four requests, three in  *)
(* the window and one that has left it.                                    *)
C6_Witness ==
    /\ resp.op = "create_verification"
    /\ resp.status = "rate_limited"
    /\ \E i \in DOMAIN requests : /\ requests[i].user = resp.user
                                  /\ resp.at - requests[i].created_at > 2
    /\ Cardinality({i \in DOMAIN requests : requests[i].user = resp.user}) = 4

----------------------------------------------------------------------------
(* Claims about the rate a request is pinned to (SpecVerif) *)

(* usd is amount / rate to two decimal places. *)
IsQuotient(usd, amount, rate) == 2 * Abs(usd * rate - amount * 10000) <= rate

(* C7: every request's exchange_rate_used is the rate the non-forced       *)
(* accessor returned when it was submitted (the cached one when the cache  *)
(* had one), its usd_equivalent is amount_ves / exchange_rate_used, and    *)
(* no step changes either field.                                           *)
C7_RatePinned ==
    /\ [](\A i \in DOMAIN requests :
            /\ requests[i].usd_equivalent # NULL
            /\ IsQuotient(Val(requests[i].usd_equivalent), requests[i].amount_ves,
                          requests[i].exchange_rate_used))
    /\ []((resp.op = "create_verification" /\ resp.status = "created")
            => requests[Len(requests)].exchange_rate_used = resp.rate_data.usd_to_ves)
    /\ [][/\ \A i \in DOMAIN requests :
                /\ requests'[i].exchange_rate_used = requests[i].exchange_rate_used
                /\ requests'[i].usd_equivalent = requests[i].usd_equivalent
          /\ (Len(requests') > Len(requests) /\ CacheGet(cache, "current", now) # NULL)
                => requests'[Len(requests')].exchange_rate_used
                     = Val(CacheGet(cache, "current", now)).usd_to_ves]_vars

----------------------------------------------------------------------------
(* Claims about the fallback and the alerts (Spec) *)

(* The alerts of a kind that reference a row. *)
AlertsOf(al, type, id) ==
    {i \in DOMAIN al : al[i].alert_type = type /\ al[i].exchange_rate = id}

(* The step is an acquisition in which all three sources were called and   *)
(* none of them yielded a rate.                                            *)
AllSourcesFailed(r) ==
    /\ r.op \in {"fetch_and_store_rate", "get_current_rate"}
    /\ Len(r.calls) = 3
    /\ r.ok = {}

(* C11: an acquisition in which all three sources fail commits exactly one *)
(* record, with the fallback rate 38.0, source fallback and fetch_success  *)
(* false, and creates a fallback-used alert that references that record.   *)
C11_FallbackCommit ==
    [][AllSourcesFailed(resp') =>
          /\ Len(log') = Len(log) + 1
          /\ log'[Len(log')].rate = 380000
          /\ log'[Len(log')].source = "fallback"
          /\ ~log'[Len(log')].fetch_success
          /\ Cardinality(AlertsOf(alerts', "source_fallback", Len(log'))) = 1
          /\ AlertsOf(alerts, "source_fallback", Len(log')) = {}]_vars

C11_Witness ==
    /\ AllSourcesFailed(resp)
    /\ Len(log) >= 2
    /\ log[Len(log) - 1].fetch_success
    /\ log[Len(log)].source = "fallback"
    /\ AlertsOf(alerts, "source_fallback", Len(log)) # {}

----------------------------------------------------------------------------
(* Rate operations as time passes (SpecTtl).  A forced read is what the    *)
(* refresh endpoint does, so the reads stand for both.                     *)

(* The first source answers 40.0, or every source fails. *)
TimedOutcomes == {outs \in Representative : outs[2].kind = "raise" /\ outs[3].kind = "raise"
                                             /\ outs[1].rate # 420000}

timed_read ==
    \E force \in BOOLEAN, outs \in TimedOutcomes : GetCurrentRate(force, outs, 0, MaxAcq)

timed_override == \E rate \in ManualRates : SetManualRate(rate, TRUE, MaxAcq)

NextTtl ==
    \/ Tick
    \/ timed_read
    \/ timed_override
    \/ activate_rate

SpecTtl == Init /\ [][NextTtl]_vars

----------------------------------------------------------------------------
(* Claims about the cache and the freshness of the store (SpecTtl) *)

(* The step is a call of op: every operation leaves its answer in resp,    *)
(* and only the passing of time moves the clock.                           *)
Answered(op) == resp'.op = op /\ now' = now

(* C12: after an acquisition that ended in the fallback rate, the next     *)
(* non-forced current-rate call, made before the cache timeout has passed, *)
(* returns the same view (38.0, source fallback), calls no source and      *)
(* commits no record.                                                      *)
C12_FallbackServedFromCache ==
    [][(/\ AllSourcesFailed(resp)
        /\ Answered("get_current_rate")
        /\ ~resp'.force
        /\ now - Val(resp.data).last_updated < 2)
          => /\ resp'.data = resp.data
             /\ Val(resp'.data).usd_to_ves = 380000
             /\ Val(resp'.data).source = "fallback"
             /\ resp'.calls = << >>
             /\ log' = log]_vars

(* The fallback was taken while a successful row was active and fresh, and *)
(* a later call, half an hour on, was served the fallback view.            *)
C12_Witness ==
    /\ resp.op = "get_current_rate"
    /\ ~resp.force
    /\ resp.calls = << >>
    /\ Val(resp.data).source = "fallback"
    /\ now > Val(resp.data).last_updated
    /\ Len(log) = 2
    /\ log[1].fetch_success /\ log[1].is_active

(* The cache holds a current-rate entry whose timeout has not passed. *)
CacheHit == cache.current # NULL /\ now < Val(cache.current).expires

(* The active successful rows of the store; the latest is its active record. *)
ActiveRecords == {i \in DOMAIN log : log[i].is_active /\ log[i].fetch_success}
ActiveRecord == CHOOSE i \in ActiveRecords : \A j \in ActiveRecords : j <= i

(* The store has an active record less than one hour old. *)
StoreFresh == ActiveRecords # {} /\ now - log[ActiveRecord].ts < 2

(* C13: get_current_rate runs the source chain and commits a record if and *)
(* only if it is forced, or the cache has no value and the store's active  *)
(* record is absent or at least one hour old; otherwise it returns the     *)
(* cached value, or the active record's rate after putting it in the       *)
(* cache, calls no source and commits nothing.                             *)
C13_WhenToFetch ==
    [][Answered("get_current_rate") =>
          IF resp'.force \/ (~CacheHit /\ ~StoreFresh)
          THEN /\ Len(resp'.calls) >= 1
               /\ Len(log') = Len(log) + 1
          ELSE /\ resp'.calls = << >>
               /\ log' = log
               /\ IF CacheHit
                  THEN /\ Val(resp'.data) = Val(cache.current).data
                       /\ cache' = cache
                  ELSE /\ Val(resp'.data).usd_to_ves = log[ActiveRecord].rate
                       /\ cache'.current # NULL
                       /\ Val(cache'.current).data = Val(resp'.data)
                       /\ now < Val(cache'.current).expires]_vars

(* A non-forced call fetched because the cache entry had run out and the   *)
(* row committed an hour before was no longer fresh.                       *)
C13_Witness ==
    /\ resp.op = "get_current_rate"
    /\ ~resp.force
    /\ resp.path = "fetch"
    /\ Len(log) = 2
    /\ log[1].fetch_success
    /\ log[2].ts - log[1].ts = 2

----------------------------------------------------------------------------
(* Claims about alerts on committed records (Spec, SpecAcq) *)

(* C14: every committed successful record, fetched or manual, has a        *)
(* large-swing alert referencing it if and only if the absolute value of   *)
(* its change_percentage is 5.0 or more, and never more than one.          *)
C14_LargeSwingAlert ==
    \A i \in Ids(log) :
        log[i].fetch_success =>
            Cardinality(AlertsOf(alerts, "high_change", i))
              = IF /\ log[i].change_percentage # NULL
                   /\ Abs(Val(log[i].change_percentage)) >= 500
                THEN 1 ELSE 0

(* The alerts the rules ask for on a row. *)
AlertsDue(row) ==
    (IF row.change_percentage # NULL /\ Abs(Val(row.change_percentage)) >= 500
     THEN 1 ELSE 0)
    + (IF ~row.fetch_success THEN 1 ELSE 0)
    + (IF row.source = "fallback" THEN 1 ELSE 0)

(* The step is an acquisition during which an alert could not be created:  *)
(* fewer alerts were added than the rules ask for on the last row.         *)
AlertLost ==
    /\ resp'.op \in {"fetch_and_store_rate", "get_current_rate"}
    /\ Len(resp'.calls) >= 1
    /\ Len(alerts') - Len(alerts) < AlertsDue(log'[Len(log')])

(* C15: when creating an alert fails during fetch_and_store_rate, the      *)
(* failure does not reach the caller: the record stays committed, the      *)
(* cache holds its view and the view is returned.                          *)
C15_AlertFailureSwallowed ==
    [][AlertLost =>
          /\ Len(log') = Len(log) + 1
          /\ resp'.status = "ok"
          /\ resp'.data # NULL
          /\ Val(resp'.data).usd_to_ves = log'[Len(log')].rate
          /\ Val(resp'.data).source = log'[Len(log')].source
          /\ cache'.current # NULL
          /\ Val(cache'.current).data = Val(resp'.data)
          /\ now < Val(cache'.current).expires]_vars

(* The fallback row got its fetch_error alert, the source_fallback alert   *)
(* could not be created, and the fallback view is in the cache.            *)
C15_Witness ==
    /\ resp.op \in {"fetch_and_store_rate", "get_current_rate"}
    /\ Len(resp.calls) = 3
    /\ log[Len(log)].source = "fallback"
    /\ AlertsOf(alerts, "fetch_error", Len(log)) # {}
    /\ AlertsOf(alerts, "source_fallback", Len(log)) = {}
    /\ cache.current # NULL
    /\ Val(cache.current).data.source = "fallback"

----------------------------------------------------------------------------
(* Manual overrides over the whole range of the serializer (SpecManual)    *)

(* -1.0, 0, 0.5, 5.0, 9.9999, 10.0, 36.0, 101.0, 500.0, 100000.0 and      *)
(* 100001.0                                                                *)
WideManualRates ==
    {-10000, 0, 5000, 50000, 99999, 100000, 360000, 1010000, 5000000,
     1000000000, 1000010000}

wide_fetch == \E outs \in TimedOutcomes : FetchAndStore(outs, 0, MaxAcq)

wide_override ==
    \E rate \in WideManualRates, alertOk \in BOOLEAN : SetManualRate(rate, alertOk, MaxAcq)

NextManual == wide_fetch \/ wide_override \/ activate_rate

SpecManual == Init /\ [][NextManual]_vars

(* The step answers a set-manual-rate request with a validation error and  *)
(* leaves the rows, the active record and the cache as they were.          *)
RejectedUnchanged ==
    /\ resp'.status = "invalid"
    /\ log' = log
    /\ LogCurrentRate(log') = LogCurrentRate(log)
    /\ cache' = cache

(* The step answers a set-manual-rate request without a validation error,  *)
(* logging the rate as suspicious exactly when it is above 100.            *)
PassedValidation ==
    /\ resp'.status # "invalid"
    /\ resp'.warned <=> resp'.rate > 1000000

----------------------------------------------------------------------------
(* Exchange rate snapshots of orders (SpecPin)                             *)

(* order.total_amount, a Decimal with two places: 10.00 USD *)
TotalAmount(o) == 1000

(* rate_data['usd_to_ves'] is built with float(...) wherever the view is   *)
(* made, and the cache gives back what was stored.                         *)
UsdToVesType == "float"

(* order.total_amount * usd_to_ves, in hundredths: Decimal.__mul__ is      *)
(* defined for a Decimal or int operand; with a float it raises TypeError, *)
(* written NULL.                                                           *)
AmountVes(total, rate, rateType) ==
    IF rateType = "float" THEN NULL ELSE Some(RoundHalfEven(total * rate, 10000))

SnapshotsOf(snaps, o) == {i \in DOMAIN snaps : snaps[i].order = Some(o)}

(* ExchangeRateSnapshot.objects.create(order=...): order is a OneToOne     *)
(* field, so a second row for the same order raises IntegrityError         *)
(* (written NULL).                                                         *)
SnapshotCreate(snaps, o, rate, amount_usd, amount_ves) ==
    IF SnapshotsOf(snaps, o) # {} THEN NULL
    ELSE Some(Append(snaps, [order |-> Some(o), payment |-> NULL, usd_to_ves |-> rate,
                             amount_usd |-> amount_usd, amount_ves |-> amount_ves]))

(* As CreateExchangeRateSnapshot, but with the amount computed in Decimal  *)
(* and the order's row written with update_or_create.                      *)
CreateExchangeRateSnapshotOverwrite(snaps, o, g) ==
    IF ~g.stored THEN snaps
    ELSE LET row == [order |-> Some(o), payment |-> NULL,
                     usd_to_ves |-> g.data.usd_to_ves,
                     amount_usd |-> TotalAmount(o),
                     amount_ves |-> RoundHalfEven(TotalAmount(o) * g.data.usd_to_ves,
                                                  10000)]
         IN  IF SnapshotsOf(snaps, o) = {} THEN Append(snaps, row)
             ELSE [i \in DOMAIN snaps |-> IF snaps[i].order = Some(o) THEN row
                                          ELSE snaps[i]]

(* _create_exchange_rate_snapshot(order): every exception is caught and    *)
(* logged, and so is the case of no rate.                                  *)
CreateExchangeRateSnapshot(snaps, o, g) ==
    IF ~g.stored THEN snaps
    ELSE LET ves == AmountVes(TotalAmount(o), g.data.usd_to_ves, UsdToVesType)
         IN  IF ves = NULL THEN snaps
             ELSE LET c == SnapshotCreate(snaps, o, g.data.usd_to_ves,
                                          TotalAmount(o), Val(ves))
                  IN  IF c = NULL THEN snaps ELSE Val(c)

(* payment_processor.process_new_order(order), called by the checkout view *)
(* and by CreatePaymentIntentView.post: it returns normally whatever       *)
(* happened to the snapshot.                                               *)
ProcessNewOrder(o, outs, failAt, cap) ==
    LET g == GetCurrentRateResult(log, alerts, cache, now, FALSE, outs, failAt)
    IN  /\ g.path = "fetch" => Len(log) < cap
        /\ log' = g.log
        /\ alerts' = g.alerts
        /\ cache' = g.cache
        /\ snapshots' = CreateExchangeRateSnapshot(snapshots, o, g)
        /\ resp' = [op |-> "process_new_order", status |-> "ok", order |-> o,
                    rate_data |-> IF g.stored THEN Some(g.data) ELSE NULL,
                    at |-> now]
        /\ UNCHANGED <<now, requests, orders, pc, loc>>

process_new_order ==
    \E o \in Orders, outs \in TimedOutcomes : ProcessNewOrder(o, outs, 0, MaxAcq)

NextPin == Tick \/ process_new_order \/ timed_override

SpecPin == Init /\ [][NextPin]_vars

(* What pin has to persist for order o at the rate of the view. *)
PinnedRow(o, rate) ==
    [order |-> Some(o), payment |-> NULL, usd_to_ves |-> rate,
     amount_usd |-> TotalAmount(o),
     amount_ves |-> RoundHalfEven(TotalAmount(o) * rate, 10000)]

(* C18: pin for an order without a snapshot, when the non-forced accessor  *)
(* yields a rate, persists exactly one snapshot tied to the order and to   *)
(* no payment, with the accessor's rate, amount_usd the order total and    *)
(* amount_ves = amount_usd x rate.                                         *)
C18_PinPersists ==
    [][(/\ Answered("process_new_order")
        /\ SnapshotsOf(snapshots, resp'.order) = {}
        /\ resp'.rate_data # NULL)
       => /\ Cardinality(SnapshotsOf(snapshots', resp'.order)) = 1
          /\ \A i \in SnapshotsOf(snapshots', resp'.order) :
                snapshots'[i] = PinnedRow(resp'.order, Val(resp'.rate_data).usd_to_ves)]_vars

(* C19: a second pin on the same order is rejected with AlreadyPinned and  *)
(* creates no second snapshot; the snapshot of the first pin is there with *)
(* the rate and the amounts of the first call, whatever the rate is now.   *)
C19_AlreadyPinned ==
    [][(/\ Answered("process_new_order")
        /\ resp.op = "process_new_order"
        /\ resp.order = resp'.order
        /\ resp.rate_data # NULL)
       => /\ resp'.status = "already_pinned"
          /\ snapshots' = snapshots
          /\ Cardinality(SnapshotsOf(snapshots', resp'.order)) = 1
          /\ \A i \in SnapshotsOf(snapshots', resp'.order) :
                snapshots'[i] = PinnedRow(resp.order, Val(resp.rate_data).usd_to_ves)]_vars

----------------------------------------------------------------------------
(* Operations around an order that has its snapshot (SpecFrame)            *)

(* payment_processor.process_successful_payment(order, payment): the order *)
(* becomes paid and confirmed; the notification only logs.                 *)
ProcessSuccessfulPayment(o) ==
    /\ orders' = [orders EXCEPT ![o] = [payment_status |-> "paid", status |-> "confirmed"]]
    /\ resp' = [op |-> "process_successful_payment", status |-> "ok", order |-> o]
    /\ UNCHANGED <<log, alerts, cache, now, snapshots, requests, pc, loc>>

process_successful_payment == \E o \in Orders : ProcessSuccessfulPayment(o)

(* The ExchangeRateSnapshot table is durable: here the database starts     *)
(* with the row of order 1, 10.00 USD at 40.0 or at 42.0.                  *)
StoredSnapshots ==
    {<<[order |-> Some(1), payment |-> NULL, usd_to_ves |-> r,
        amount_usd |-> TotalAmount(1),
        amount_ves |-> RoundHalfEven(TotalAmount(1) * r, 10000)]>> : r \in SourceRates}

InitFrame ==
    /\ log = << >>
    /\ alerts = << >>
    /\ cache = EmptyCache
    /\ now = 0
    /\ requests = << >>
    /\ orders = [o \in Orders |-> [payment_status |-> "pending", status |-> "pending"]]
    /\ snapshots \in StoredSnapshots
    /\ pc = [p \in Procs |-> "idle"]
    /\ loc = [p \in Procs |-> IdleLoc]
    /\ resp = [op |-> "none"]

order_verification ==
    \E outs \in TimedOutcomes : CreateVerification(1, 1, 76000, outs, MaxAcq, MaxOps)

NextFrame ==
    \/ timed_read
    \/ timed_override
    \/ process_new_order
    \/ process_successful_payment
    \/ order_verification
    \/ decide

SpecFrame == InitFrame /\ [][NextFrame]_vars

(* C21: a snapshot that exists keeps its rate, its USD amount and its      *)
(* local-currency amount in every later state.                             *)
C21_SnapshotImmutable ==
    [][\A i \in DOMAIN snapshots :
          /\ i \in DOMAIN snapshots'
          /\ snapshots'[i].usd_to_ves = snapshots[i].usd_to_ves
          /\ snapshots'[i].amount_usd = snapshots[i].amount_usd
          /\ snapshots'[i].amount_ves = snapshots[i].amount_ves]_vars

(* The order of the snapshot was pinned again after a manual override to   *)
(* another rate, its request is approved and the order is paid.            *)
C21_Witness ==
    /\ resp.op = "process_new_order"
    /\ resp.rate_data # NULL
    /\ snapshots # << >>
    /\ Val(resp.rate_data).source = "manual"
    /\ Val(resp.rate_data).usd_to_ves # snapshots[1].usd_to_ves
    /\ orders[1].payment_status = "paid"
    /\ \E i \in DOMAIN requests : requests[i].status = "approved"

----------------------------------------------------------------------------
(* Claims about approval and the related order (SpecStaff) *)

(* Request id goes from pending to approved in this step. *)
BecomesApproved(id) ==
    /\ requests[id].status = "pending"
    /\ requests'[id].status = "approved"

(* C22: approve on a pending request sets its status to approved and       *)
(* records the approver and the time; a related order becomes paid and     *)
(* confirmed; when there is no related order, no order is changed.         *)
C22_ApproveEffect ==
    [][/\ \A id \in DOMAIN requests :
            BecomesApproved(id) =>
               /\ requests'[id].approved_by \in {Some(s) : s \in Staff}
               /\ requests'[id].approved_at = Some(now)
               /\ requests'[id].order # 0 =>
                     orders'[requests'[id].order] =
                        [payment_status |-> "paid", status |-> "confirmed"]
       /\ (/\ resp'.op = "patch_status"
           /\ resp'.new_status = "approved"
           /\ requests[resp'.id].status = "pending")
          => /\ BecomesApproved(resp'.id)
             /\ requests[resp'.id].order = 0 => orders' = orders
       /\ \A o \in Orders :
            orders'[o] # orders[o] =>
               \E id \in DOMAIN requests :
                  /\ requests'[id].order = o
                  /\ requests'[id].status = "approved"
                  /\ requests'[id].approved_at = Some(now)]_vars

(* A request with an order was approved and the order is paid and          *)
(* confirmed, while the order-less request approved before left it alone.  *)
C22_Witness ==
    /\ resp.op = "patch_status"
    /\ resp.new_status = "approved"
    /\ requests[resp.id].order = 1
    /\ requests[resp.id].status = "approved"
    /\ requests[resp.id].approved_by # NULL
    /\ orders[1] = [payment_status |-> "paid", status |-> "confirmed"]
    /\ \E j \in DOMAIN requests : requests[j].order = 0 /\ requests[j].status = "approved"

----------------------------------------------------------------------------
(* The rate at a point in time (SpecAt)                                    *)

(* As RateAtTimestamp, but without the fetch_success=True filter. *)
RateAtTimestampAnyRow(l, t) ==
    LET c == {i \in Ids(l) : l[i].ts <= t}
    IN  {i \in c : \A j \in c : l[j].ts <= l[i].ts}

(* ExchangeRateLog.get_rate_at_timestamp(timestamp):                       *)
(* filter(timestamp__lte=timestamp, fetch_success=True).latest('timestamp')*)
(* The result is the set of rows latest() may give: rows with the same     *)
(* timestamp are in no defined order; the empty set is DoesNotExist.       *)
RateAtTimestamp(l, t) ==
    LET c == {i \in Ids(l) : l[i].ts <= t /\ l[i].fetch_success}
    IN  {i \in c : \A j \in c : l[j].ts <= l[i].ts}

(* ExchangeRateAtTimestampView.get with a well-formed timestamp *)
RateAt(t) ==
    /\ IF RateAtTimestamp(log, t) = {}
       THEN resp' = [op |-> "rate_at", status |-> "not_found", t |-> t, row |-> NULL]
       ELSE \E i \in RateAtTimestamp(log, t) :
               resp' = [op |-> "rate_at", status |-> "ok", t |-> t, row |-> Some(log[i])]
    /\ UNCHANGED <<log, alerts, cache, now, snapshots, requests, orders, pc, loc>>

rate_at == \E t \in 0..MaxTime : RateAt(t)

NextAt == Tick \/ timed_read \/ timed_override \/ activate_rate \/ rate_at

SpecAt == Init /\ [][NextAt]_vars

(* The successful rows with a timestamp not after t. *)
SuccessNotAfter(t) == {i \in Ids(log) : log[i].fetch_success /\ log[i].ts <= t}

(* C23: rate-at(t) returns the successful record with the greatest         *)
(* timestamp not after t, whichever record is active now, and answers      *)
(* not-found, with no rate at all, when there is no such record.           *)
C23_RateAt ==
    resp.op = "rate_at" =>
       IF SuccessNotAfter(resp.t) = {}
       THEN resp.status = "not_found" /\ resp.row = NULL
       ELSE /\ resp.status = "ok"
            /\ resp.row # NULL
            /\ \E i \in SuccessNotAfter(resp.t) :
                  /\ Val(resp.row).rate = log[i].rate
                  /\ Val(resp.row).source = log[i].source
                  /\ Val(resp.row).ts = log[i].ts
                  /\ \A j \in SuccessNotAfter(resp.t) : log[j].ts <= log[i].ts

(* The rate asked for is that of a record which is no longer active: a     *)
(* later successful record has replaced it.                                *)
C23_Witness ==
    /\ resp.op = "rate_at"
    /\ resp.status = "ok"
    /\ \E i \in Ids(log) :
          /\ log[i].ts = Val(resp.row).ts
          /\ log[i].rate = Val(resp.row).rate
          /\ ~log[i].is_active
    /\ \E j \in Ids(log) : /\ log[j].fetch_success /\ log[j].is_active
                           /\ log[j].ts > resp.t
                           /\ log[j].rate # Val(resp.row).rate

----------------------------------------------------------------------------
(* Currency conversion (SpecConv)                                          *)

(* Amounts in hundredths up to MaxCents; rates 0.0001, 0.5, 1.0, 1.5,      *)
(* 33.3333, 40.0 and 101.0 in ten-thousandths.                             *)
MaxCents == 120
ConvAmounts == 1..MaxCents
ConvRates == {1, 5000, 10000, 15000, 333333, 400000, 1010000}

(* convert_usd_to_ves(usd_amount, rate) = usd_amount * rate, in millionths *)
convert_usd_to_ves(usd_amount, rate) == usd_amount * rate

(* convert_ves_to_usd(ves_amount, rate) = ves_amount / rate: the quotient  *)
(* as numerator and denominator of hundredths.                             *)
convert_ves_to_usd(ves_amount, rate) == [num |-> ves_amount * 10000, den |-> rate]

(* As ConvertedAmount, but cut to two places instead of rounded. *)
ConvertedAmountTruncated(amount, from, rate) ==
    IF from = "USD"
    THEN convert_usd_to_ves(amount, rate) \div 10000
    ELSE convert_ves_to_usd(amount, rate).num \div convert_ves_to_usd(amount, rate).den

(* CurrencyConversionView.post: round(converted_amount, 2), in hundredths. *)
ConvertedAmount(amount, from, rate) ==
    IF from = "USD"
    THEN RoundHalfEven(convert_usd_to_ves(amount, rate), 10000)
    ELSE RoundHalfEven(convert_ves_to_usd(amount, rate).num,
                       convert_ves_to_usd(amount, rate).den)

(* CurrencyConversionView.post with a rate given in the request; back says *)
(* that the amount sent is the answer of the conversion just made, sent    *)
(* back in the other direction at the same rate.                           *)
CurrencyConversion(amount, from, rate, back) ==
    /\ resp' = [op |-> "convert", status |-> "ok", amount |-> amount, from |-> from,
                rate |-> rate, converted_amount |-> ConvertedAmount(amount, from, rate),
                first |-> IF back THEN Some(resp.amount) ELSE NULL]
    /\ UNCHANGED <<log, alerts, cache, now, snapshots, requests, orders, pc, loc>>

convert_amount ==
    \E amount \in ConvAmounts, rate \in ConvRates : CurrencyConversion(amount, "USD", rate, FALSE)

convert_back ==
    /\ resp.op = "convert" /\ resp.from = "USD"
    /\ CurrencyConversion(resp.converted_amount, "VES", resp.rate, TRUE)

NextConv == convert_amount \/ convert_back

SpecConv == Init /\ [][NextConv]_vars

(* C24: converting x from USD to VES at rate r and the answer back at r    *)
(* yields x within the tolerance of the two roundings, half a hundredth of *)
(* a bolivar taken back at r plus half a hundredth of a dollar; at a rate  *)
(* of 1 or more that is x itself.                                          *)
C24_RoundTrip ==
    (resp.op = "convert" /\ resp.first # NULL) =>
       LET x == Val(resp.first)
           y == resp.converted_amount
       IN  /\ 2 * resp.rate * Abs(y - x) <= resp.rate + 10000
           /\ resp.rate >= 10000 => y = x

(* 1.00 USD went to 33.33 VES at 33.3333 and came back as 1.00 USD. *)
C24_Witness ==
    /\ resp.op = "convert"
    /\ resp.first = Some(100)
    /\ resp.rate = 333333
    /\ resp.amount = 3333
    /\ resp.converted_amount = 100


(* C25: an order that the verification workflow has made paid has a        *)
(* related request with status approved.                                   *)
C25_PaidHasApproved ==
    \A o \in Orders :
        orders[o].payment_status = "paid" =>
           \E i \in DOMAIN requests : requests[i].order = o /\ requests[i].status = "approved"

----------------------------------------------------------------------------
(* Claims about the store and the cache between requests (SpecConc) *)

(* No request is being served. *)
Quiescent == \A p \in Procs : pc[p] = "idle"

SuccessRows == {i \in Ids(log) : log[i].fetch_success}

(* C26: whenever a successful commit has completed and no commit is in     *)
(* flight, exactly one record is active and the current-active lookup      *)
(* gives the most recently committed successful record.                    *)
C26_OneActiveAtRest ==
    (Quiescent /\ SuccessRows # {}) =>
       /\ Cardinality(ActiveRows) = 1
       /\ LogCurrentRate(log) = Some(CHOOSE i \in SuccessRows : \A j \in SuccessRows : j <= i)


(* C27: whenever no rate operation is in flight and the cache holds an     *)
(* entry, the cached rate and source are those of the most recently        *)
(* committed record.                                                       *)
C27_CacheFollowsStore ==
    (Quiescent /\ CacheGet(cache, "current", now) # NULL /\ log # << >>) =>
       /\ Val(CacheGet(cache, "current", now)).usd_to_ves = log[Len(log)].rate
       /\ Val(CacheGet(cache, "current", now)).source = log[Len(log)].source

----------------------------------------------------------------------------
(* Claims about the age of what is served (SpecTtl) *)

(* C28: a non-forced get_current_rate never returns a rate whose record    *)
(* was committed one hour or more before the call.                         *)
C28_NeverOlderThanTtl ==
    [][(Answered("get_current_rate") /\ ~resp'.force /\ resp'.data # NULL)
          => now - Val(resp'.data).last_updated < FRESH_AGE]_vars


(* When the cache entry now held was written. *)
CacheWritten == Val(cache.current).expires - CACHE_TIMEOUT

(* C28, amended: a non-forced get_current_rate never returns a rate whose  *)
(* record was committed two hours or more before the call: what comes from *)
(* the store or from a fetch is younger than one hour, and what comes from *)
(* the cache was written less than one hour ago, when its record was       *)
(* younger than one hour.                                                  *)
C28_NeverOlderThanTwoHours ==
    [][(Answered("get_current_rate") /\ ~resp'.force /\ resp'.data # NULL)
          => /\ now - Val(resp'.data).last_updated < FRESH_AGE + CACHE_TIMEOUT
             /\ resp'.path # "cache" => now - Val(resp'.data).last_updated < FRESH_AGE
             /\ resp'.path = "cache" =>
                   /\ now - CacheWritten < CACHE_TIMEOUT
                   /\ CacheWritten - Val(resp'.data).last_updated < FRESH_AGE]_vars

(* A cache hit on a record committed one hour before: the entry was        *)
(* written from the store half an hour after the commit.                   *)
C28_Witness ==
    /\ resp.op = "get_current_rate"
    /\ ~resp.force
    /\ resp.path = "cache"
    /\ now - Val(resp.data).last_updated = FRESH_AGE
    /\ Val(cache.current).expires = now + 1

----------------------------------------------------------------------------
(* Submissions of one user served by overlapping workers (SpecSubmit)      *)

(* PagoMovilVerificationCreateView.post, first half: serializer.is_valid() *)
(* runs validate(), which counts the user's recent requests.  A worker     *)
(* that passes goes on to the insert; nothing is locked in between.        *)
ConcValidate(p) ==
    /\ pc[p] = "idle"
    /\ loc[p].n < MaxVer
    /\ IF RecentRequests(requests, 1, now) >= RATE_LIMIT
       THEN /\ resp' = [op |-> "create_verification", status |-> "rate_limited",
                        user |-> 1, at |-> now]
            /\ pc' = pc
       ELSE /\ resp' = [op |-> "validate", status |-> "passed", user |-> 1, at |-> now]
            /\ pc' = [pc EXCEPT ![p] = "v_save"]
    /\ loc' = [loc EXCEPT ![p] = [IdleLoc EXCEPT !.op = "create_verification",
                                                 !.n = loc[p].n + 1]]
    /\ UNCHANGED <<log, alerts, cache, now, snapshots, requests, orders>>

(* PagoMovilVerificationCreateView.post, second half: get_current_rate()   *)
(* and serializer.save(), which inserts the row with created_at = now.     *)
ConcSave(p) ==
    /\ pc[p] = "v_save"
    /\ \E outs \in TimedOutcomes :
         LET g   == GetCurrentRateResult(log, alerts, cache, now, FALSE, outs, 0)
             row == VerificationSave(
                      [user |-> 1, order |-> 1, amount_ves |-> 76000,
                       exchange_rate_used |-> g.data.usd_to_ves,
                       usd_equivalent |-> NULL, status |-> "pending", notes |-> "",
                       approved_by |-> NULL, approved_at |-> NULL,
                       created_at |-> now])
         IN  /\ g.path = "fetch" => Len(log) < MaxAcq
             /\ log' = g.log
             /\ alerts' = g.alerts
             /\ cache' = g.cache
             /\ requests' = Append(requests, row)
             /\ resp' = [op |-> "create_verification", status |-> "created",
                         user |-> 1, at |-> now, rate_data |-> g.data]
    /\ pc' = [pc EXCEPT ![p] = "idle"]
    /\ UNCHANGED <<now, snapshots, orders, loc>>

NextSubmit == Tick \/ \E p \in Procs : ConcValidate(p) \/ ConcSave(p)

SpecSubmit == Init /\ [][NextSubmit]_vars

(* The user's requests created within the window of RATE_WINDOW that       *)
(* starts at t.                                                            *)
CreatedWithin(u, t) ==
    {i \in DOMAIN requests : /\ requests[i].user = u
                             /\ requests[i].created_at >= t
                             /\ requests[i].created_at <= t + RATE_WINDOW}

(* C29: under overlapping submissions of one user, in every interleaving   *)
(* the user never has more than 3 verification requests created within any *)
(* 60-minute window.                                                       *)
C29_LimitUnderConcurrency ==
    \A u \in Users, t \in 0..MaxTime : Cardinality(CreatedWithin(u, t)) <= RATE_LIMIT

----------------------------------------------------------------------------
(* Claim about a failing manual override (SpecManual) *)

(* C30: a set_manual_rate that ends in an error has committed nothing: the *)
(* log (and with it the active record) and the cache entry are as they     *)
(* were before the call.                                                   *)
C30_FailedOverrideCommitsNothing ==
    [][(resp'.op = "set_manual_rate" /\ resp'.status = "error")
          => UNCHANGED <<log, cache>>]_vars

====
